---------------------------- MODULE Spec2Model ----------------------------
(***************************************************************************)
(* A model of the hashcat rule interpreter of hashcat_rule_gen.py (the     *)
(* opcode table, parse_rule, apply_rule, apply_rules) and of the rule      *)
(* formatter of parseOrderedRules.py (format_action, format_rule).         *)
(*                                                                         *)
(* A Python str is a sequence of code points (naturals).  A value of an    *)
(* Action's argument list is tagged with its Python type: an int or a str. *)
(* The outcome of a call is a record: the value it returns, or the name of *)
(* the exception it raises.                                                *)
(***************************************************************************)
EXTENDS Integers, Sequences, FiniteSets, TLC

\* ------------------------------------------------------------------------
\* Characters

\* The ASCII characters of code points 32..95, in order.
Punct ==
    << " ", "!", "\"", "#", "$", "%", "&", "'", "(", ")", "*", "+", ",", "-",
       ".", "/", "0", "1", "2", "3", "4", "5", "6", "7", "8", "9", ":", ";",
       "<", "=", ">", "?", "@", "A", "B", "C", "D", "E", "F", "G", "H", "I",
       "J", "K", "L", "M", "N", "O", "P", "Q", "R", "S", "T", "U", "V", "W",
       "X", "Y", "Z", "[", "\\", "]", "^", "_" >>

\* The ASCII characters of code points 97..126, in order.
Small ==
    << "a", "b", "c", "d", "e", "f", "g", "h", "i", "j", "k", "l", "m", "n",
       "o", "p", "q", "r", "s", "t", "u", "v", "w", "x", "y", "z", "{", "|",
       "}", "~" >>

\* ord(c) of an ASCII character, written as a one-character string.
ord ==
    [c \in {Punct[k] : k \in 1..Len(Punct)} \cup {Small[k] : k \in 1..Len(Small)} |->
        IF \E k \in 1..Len(Punct) : Punct[k] = c
        THEN 31 + CHOOSE k \in 1..Len(Punct) : Punct[k] = c
        ELSE 96 + CHOOSE k \in 1..Len(Small) : Small[k] = c]

\* chr(n): the code point n, or ValueError outside range(0x110000).
ChrOk(n) == n >= 0 /\ n < 1114112

IsUpperCh(c) == c >= ord["A"] /\ c <= ord["Z"]
IsLowerCh(c) == c >= ord["a"] /\ c <= ord["z"]

\* str.lower / str.upper / str.swapcase of one character.  The mapping is
\* that of the ASCII range; every subject a case opcode meets in the
\* specifications below is ASCII.
LowerCh(c) == IF IsUpperCh(c) THEN c + 32 ELSE c
UpperCh(c) == IF IsLowerCh(c) THEN c - 32 ELSE c
SwapCh(c) == IF IsUpperCh(c) THEN c + 32 ELSE IF IsLowerCh(c) THEN c - 32 ELSE c

\* ------------------------------------------------------------------------
\* Python str operations on sequences of code points

Min(a, b) == IF a < b THEN a ELSE b
Max(a, b) == IF a > b THEN a ELSE b

\* The bound b of a slice of a sequence of length n, as Python adjusts it:
\* a negative bound counts from the end, and the bound is clamped to 0..n.
SliceBound(b, n) == IF b < 0 THEN Max(b + n, 0) ELSE Min(b, n)

\* x[lo:hi]
Slice(x, lo, hi) ==
    LET l == SliceBound(lo, Len(x))
        h == SliceBound(hi, Len(x))
    IN  IF h <= l THEN << >> ELSE SubSeq(x, l + 1, h)

\* x[lo:]
SliceFrom(x, lo) == Slice(x, lo, Len(x))

\* x[:hi]
SliceTo(x, hi) == Slice(x, 0, hi)

\* Whether x[k] is an index error.
ValidIndex(x, k) == k >= -Len(x) /\ k < Len(x)

\* x[k] for a valid index k; a negative k counts from the end.
Item(x, k) == IF k < 0 THEN x[Len(x) + k + 1] ELSE x[k + 1]

Lower(x) == [k \in 1..Len(x) |-> LowerCh(x[k])]
Upper(x) == [k \in 1..Len(x) |-> UpperCh(x[k])]
Swapcase(x) == [k \in 1..Len(x) |-> SwapCh(x[k])]

\* x.capitalize(): the first character upper case, the rest lower case.
Capitalize(x) ==
    [k \in 1..Len(x) |-> IF k = 1 THEN UpperCh(x[k]) ELSE LowerCh(x[k])]

\* x[::-1]
Reverse(x) == [k \in 1..Len(x) |-> x[Len(x) + 1 - k]]

\* x * n
RECURSIVE Repeat(_, _)
Repeat(x, n) == IF n <= 0 THEN << >> ELSE x \o Repeat(x, n - 1)

\* "".join([i+i for i in x])
DoubleEach(x) == [k \in 1..(2 * Len(x)) |-> x[(k + 1) \div 2]]

\* Whether y occurs in x at the 1-based position p.
OccursAt(x, y, p) ==
    p + Len(y) - 1 <= Len(x) /\ SubSeq(x, p, p + Len(y) - 1) = y

\* x.replace(y, z) for a non-empty y, scanning x from position p: the
\* non-overlapping occurrences of y, left to right.
RECURSIVE ReplaceFrom(_, _, _, _)
ReplaceFrom(x, y, z, p) ==
    IF p > Len(x) THEN << >>
    ELSE IF OccursAt(x, y, p) THEN z \o ReplaceFrom(x, y, z, p + Len(y))
    ELSE << x[p] >> \o ReplaceFrom(x, y, z, p + 1)

\* z before every character of x, from position p (replace of the empty str).
RECURSIVE Interleave(_, _, _)
Interleave(x, z, p) ==
    IF p > Len(x) THEN << >> ELSE z \o << x[p] >> \o Interleave(x, z, p + 1)

\* x.replace(y, z)
Replace(x, y, z) ==
    IF y = << >> THEN Interleave(x, z, 1) \o z ELSE ReplaceFrom(x, y, z, 1)

\* x.split(" "): the pieces of x between single spaces, from position p,
\* cur being the piece read so far.
RECURSIVE SplitFrom(_, _, _)
SplitFrom(x, p, cur) ==
    IF p > Len(x) THEN << cur >>
    ELSE IF x[p] = ord[" "] THEN << cur >> \o SplitFrom(x, p + 1, << >>)
    ELSE SplitFrom(x, p + 1, Append(cur, x[p]))

Split(x) == SplitFrom(x, 1, << >>)

\* " ".join(pieces)
RECURSIVE JoinSpace(_)
JoinSpace(pieces) ==
    IF Len(pieces) = 0 THEN << >>
    ELSE IF Len(pieces) = 1 THEN pieces[1]
    ELSE pieces[1] \o << ord[" "] >> \o JoinSpace(Tail(pieces))

\* ------------------------------------------------------------------------
\* Values and outcomes

\* A Python int and a Python str, as the members of an argument list.
PyInt(n) == [t |-> "int", v |-> n]
PyStr(s) == [t |-> "str", v |-> s]

\* A call that returns val, and a call that raises the exception exc.
Ok(val) == [ok |-> TRUE, val |-> val, exc |-> "none"]
Raise(exc) == [ok |-> FALSE, val |-> << >>, exc |-> exc]

\* ------------------------------------------------------------------------
\* The opcode table

\* _i: the digit alphabet, '0'-'9' to 0..9 and 'A'-'Z' to 10..35.
_i ==
    [c \in (ord["0"]..ord["9"]) \cup (ord["A"]..ord["Z"]) |->
        IF c <= ord["9"] THEN c - ord["0"] ELSE 10 + (c - ord["A"])]

\* x with the character at index y replaced by the string s:
\* x[:y] + s + x[y+1:].
Splice(x, y, s) == SliceTo(x, y) \o s \o SliceFrom(x, y + 1)

\* hashcat_rule["E"]: i[0].upper()+i[1:] of every piece of x.split(" ").
TitlePieces(pieces) ==
    [k \in 1..Len(pieces) |->
        << UpperCh(pieces[k][1]) >> \o SliceFrom(pieces[k], 1)]

\* The character x[y] changed to the code point n: chr(n) raises ValueError
\* for an n that is no code point.
SetCodePoint(x, y, n) ==
    IF ChrOk(n) THEN Ok(Splice(x, y, << n >>)) ELSE Raise("ValueError")

\* star_func as it would be with the branch for z > y alone.
star_func_lower_first(x, y, z) ==
    IF ValidIndex(x, z) /\ ValidIndex(x, y)
    THEN Ok(SliceTo(x, y) \o << Item(x, z) >> \o Slice(x, y + 1, z)
            \o << Item(x, y) >> \o SliceFrom(x, z + 1))
    ELSE Raise("IndexError")

\* star_func(x, y, z): swap the characters at y and z.
star_func(x, y, z) ==
    IF z > y
    THEN IF ValidIndex(x, z) /\ ValidIndex(x, y)
         THEN Ok(SliceTo(x, y) \o << Item(x, z) >> \o Slice(x, y + 1, z)
                 \o << Item(x, y) >> \o SliceFrom(x, z + 1))
         ELSE Raise("IndexError")
    ELSE IF ValidIndex(x, y) /\ ValidIndex(x, z)
         THEN Ok(SliceTo(x, z) \o << Item(x, y) >> \o Slice(x, z + 1, y)
                 \o << Item(x, z) >> \o SliceFrom(x, y + 1))
         ELSE Raise("IndexError")

\* The opcodes of the table by the number of arguments of their transform
\* beyond the subject.
Arity0 ==
    { ord[c] : c \in { ":", "l", "u", "c", "C", "t", "E", "r", "{", "}", "d",
                       "f", "q", "[", "]", "k", "K" } }
Arity1 ==
    { ord[c] : c \in { "T", "p", "z", "Z", "y", "Y", "D", "'", "@", "$", "^",
                       "L", "R", "+", "-", ".", "," } }
Arity2 == { ord[c] : c \in { "O", "x", "i", "o", "s", "*" } }

\* num_args_dict: the arity of every opcode of the table.
num_args_dict ==
    [k \in Arity0 \cup Arity1 \cup Arity2 |->
        IF k \in Arity0 THEN 0 ELSE IF k \in Arity1 THEN 1 ELSE 2]

\* hashcat_rule[k](x, y, z): the transform of opcode k on the subject x; y
\* and z are its arguments, read only by the transforms that take them.  An
\* index that is out of range raises IndexError; a slice never does.
hashcat_rule(k, x, y, z) ==
    CASE k = ord[":"] -> Ok(x)
      [] k = ord["l"] -> Ok(Lower(x))
      [] k = ord["u"] -> Ok(Upper(x))
      [] k = ord["c"] -> Ok(Capitalize(x))
      [] k = ord["C"] ->
            IF ValidIndex(x, 0)
            THEN Ok(<< LowerCh(Item(x, 0)) >> \o Upper(SliceFrom(x, 1)))
            ELSE Raise("IndexError")
      [] k = ord["t"] -> Ok(Swapcase(x))
      [] k = ord["E"] ->
            IF \A j \in 1..Len(Split(x)) : Split(x)[j] # << >>
            THEN Ok(JoinSpace(TitlePieces(Split(x))))
            ELSE Raise("IndexError")
      [] k = ord["T"] ->
            IF ValidIndex(x, y)
            THEN Ok(Splice(x, y, << SwapCh(Item(x, y)) >>))
            ELSE Raise("IndexError")
      [] k = ord["r"] -> Ok(Reverse(x))
      [] k = ord["{"] ->
            IF ValidIndex(x, 0)
            THEN Ok(SliceFrom(x, 1) \o << Item(x, 0) >>)
            ELSE Raise("IndexError")
      [] k = ord["}"] ->
            IF ValidIndex(x, -1)
            THEN Ok(<< Item(x, -1) >> \o SliceTo(x, -1))
            ELSE Raise("IndexError")
      [] k = ord["d"] -> Ok(x \o x)
      [] k = ord["f"] -> Ok(x \o Reverse(x))
      [] k = ord["q"] -> Ok(DoubleEach(x))
      [] k = ord["p"] -> Ok(Repeat(x, y))
      [] k = ord["z"] ->
            IF ValidIndex(x, 0)
            THEN Ok(Repeat(<< Item(x, 0) >>, y) \o x)
            ELSE Raise("IndexError")
      [] k = ord["Z"] ->
            IF ValidIndex(x, -1)
            THEN Ok(x \o Repeat(<< Item(x, -1) >>, y))
            ELSE Raise("IndexError")
      [] k = ord["y"] -> Ok(SliceTo(x, y) \o x)
      [] k = ord["Y"] -> Ok(x \o SliceFrom(x, -y))
      [] k = ord["["] -> Ok(SliceFrom(x, 1))
      [] k = ord["]"] -> Ok(SliceTo(x, -1))
      [] k = ord["D"] -> Ok(SliceTo(x, y) \o SliceFrom(x, y + 1))
      [] k = ord["'"] -> Ok(SliceTo(x, y))
      [] k = ord["O"] -> Ok(SliceTo(x, y) \o SliceFrom(x, y + z))
      [] k = ord["x"] -> Ok(Slice(x, y, y + z))
      [] k = ord["@"] -> Ok(Replace(x, y, << >>))
      [] k = ord["$"] -> Ok(x \o y)
      [] k = ord["^"] -> Ok(y \o x)
      [] k = ord["i"] -> Ok(SliceTo(x, y) \o z \o SliceFrom(x, y))
      [] k = ord["o"] -> Ok(Splice(x, y, z))
      [] k = ord["s"] -> Ok(Replace(x, y, z))
      [] k = ord["L"] ->
            IF ValidIndex(x, y) THEN SetCodePoint(x, y, Item(x, y) * 2)
            ELSE Raise("IndexError")
      [] k = ord["R"] ->
            IF ValidIndex(x, y) THEN SetCodePoint(x, y, Item(x, y) \div 2)
            ELSE Raise("IndexError")
      [] k = ord["+"] ->
            IF ValidIndex(x, y) THEN SetCodePoint(x, y, Item(x, y) + 1)
            ELSE Raise("IndexError")
      [] k = ord["-"] ->
            IF ValidIndex(x, y) THEN SetCodePoint(x, y, Item(x, y) - 1)
            ELSE Raise("IndexError")
      [] k = ord["."] ->
            IF ValidIndex(x, y + 1)
            THEN Ok(Splice(x, y, << Item(x, y + 1) >>))
            ELSE Raise("IndexError")
      [] k = ord[","] ->
            IF ValidIndex(x, y - 1)
            THEN Ok(Splice(x, y, << Item(x, y - 1) >>))
            ELSE Raise("IndexError")
      [] k = ord["k"] ->
            IF ValidIndex(x, 1) /\ ValidIndex(x, 0)
            THEN Ok(<< Item(x, 1), Item(x, 0) >> \o SliceFrom(x, 2))
            ELSE Raise("IndexError")
      [] k = ord["K"] ->
            IF ValidIndex(x, -1) /\ ValidIndex(x, -2)
            THEN Ok(SliceTo(x, -2) \o << Item(x, -1), Item(x, -2) >>)
            ELSE Raise("IndexError")
      [] k = ord["*"] -> star_func(x, y, z)

\* hashcat_rule[rule_type](result, *args), as apply_rule calls it: KeyError
\* for a rule_type that is no key of the table, TypeError when args does not
\* hold as many values as the transform has parameters.
CallTransform(rule_type, x, args) ==
    IF rule_type \notin DOMAIN num_args_dict THEN Raise("KeyError")
    ELSE IF Len(args) # num_args_dict[rule_type] THEN Raise("TypeError")
    ELSE hashcat_rule(rule_type, x,
                      IF Len(args) >= 1 THEN args[1].v ELSE 0,
                      IF Len(args) >= 2 THEN args[2].v ELSE 0)

\* ------------------------------------------------------------------------
\* parse_rule and format_rule

\* An Action: the tuple (rule_type, args).
Action(rule_type, args) == << rule_type, args >>

\* The opcodes whose first argument parse_rule decodes through _i, and
\* those whose second argument it decodes too.
DecodeFirst ==
    { ord[c] : c \in { "T", "p", "Z", "z", "Y", "y", "D", "'", "x", "O", "o",
                       "L", "R", "+", "-", ".", ",", "*", "i" } }
DecodeSecond == { ord[c] : c \in { "x", "O", "*" } }

\* [*rule[1:1+num_args]]: the argument characters, each a str of length 1.
ArgChars(rule, num_args) ==
    [k \in 1..Len(Slice(rule, 1, 1 + num_args)) |->
        PyStr(<< Slice(rule, 1, 1 + num_args)[k] >>)]

\* args[n] = _i[args[n]]: IndexError when args holds no such item, KeyError
\* when the character is no digit of the alphabet.
DecodeArg(args, n) ==
    IF Len(args) < n THEN Raise("IndexError")
    ELSE IF args[n].v[1] \notin DOMAIN _i THEN Raise("KeyError")
    ELSE Ok([args EXCEPT ![n] = PyInt(_i[args[n].v[1]])])

\* RestOfRule as it would be without the character skipped after the
\* arguments.
RestOfRuleNoSeparator(rule, num_args) == SliceFrom(rule, 1 + num_args)

\* rule[1+num_args+1:]: what is left of the text after an opcode, its
\* arguments and one more character.
RestOfRule(rule, num_args) == SliceFrom(rule, 1 + num_args + 1)

\* The body of the while loop for a rule text whose first character is a key
\* of num_args_dict: the Action read and the text left, or the exception.
ParseKnown(rule) ==
    LET rule_type == rule[1]
        num_args == num_args_dict[rule_type]
        args0 == ArgChars(rule, num_args)
        first == IF rule_type \in DecodeFirst
                 THEN DecodeArg(args0, 1) ELSE Ok(args0)
        second == IF rule_type \in DecodeSecond
                  THEN DecodeArg(first.val, 2) ELSE first
    IN  IF ~first.ok THEN first
        ELSE IF ~second.ok THEN second
        ELSE Ok([rule |-> RestOfRule(rule, num_args),
                 action |-> Action(rule_type, second.val)])

\* ParseIteration as it would be if a character that is no key of the table
\* were read as an opcode without arguments instead of raising.
ParseIterationSkipUnknown(rule) ==
    IF rule[1] \notin DOMAIN num_args_dict
    THEN Ok([rule |-> RestOfRule(rule, 0), action |-> Action(rule[1], << >>)])
    ELSE ParseKnown(rule)

\* One iteration of the while loop of parse_rule on a non-empty text.
ParseIteration(rule) ==
    IF rule[1] \notin DOMAIN num_args_dict THEN Raise("KeyError")
    ELSE ParseKnown(rule)

\* str(n) of an int: its decimal digits.
RECURSIVE IntStr(_)
IntStr(n) ==
    IF n < 0 THEN << ord["-"] >> \o IntStr(-n)
    ELSE IF n < 10 THEN << ord["0"] + n >>
    ELSE IntStr(n \div 10) \o << ord["0"] + (n % 10) >>

\* str(item) of a payload item.
ItemStr(item) == IF item.t = "int" THEN IntStr(item.v) ELSE item.v

\* ''.join(map(str, payload))
RECURSIVE JoinPayload(_)
JoinPayload(payload) ==
    IF payload = << >> THEN << >>
    ELSE ItemStr(payload[1]) \o JoinPayload(Tail(payload))

\* format_action(action): the type, then the payload items without
\* separators.
format_action(action) == << action[1] >> \o JoinPayload(action[2])

\* format_rule(actions): the formatted actions, single-space separated.
format_rule(actions) ==
    JoinSpace([k \in 1..Len(actions) |-> format_action(actions[k])])

\* ------------------------------------------------------------------------
\* Bounds and inputs

\* The longest rule text given to parse_rule character by character.
MaxText == 4
\* The longest Rule built from the sample actions.
MaxActions == 2
\* The longest password.
MaxLen == 3
\* The longest list of rules given to apply_rules.
MaxRules == 2

\* All sequences over S of length at most n.
SeqsUpTo(S, n) == UNION { [1..m -> S] : m \in 0..n }

\* The characters of the rule texts: opcodes of every arity and argument
\* kind, a digit that is no opcode, a letter and a sign that are neither,
\* and the separator.
TextChars == { ord[c] : c \in { "l", "$", "D", "s", "i", "*", "1", "a", "!", " " } }
RawTexts == SeqsUpTo(TextChars, MaxText)

\* The literal argument characters of the well-formed actions.
Literals == { ord[c] : c \in { "a", "1", " " } }

\* The opcodes whose first argument is a position or a count, and those
\* whose second argument is one too; every other argument is a literal.
PositionFirst ==
    { ord[c] : c \in { "T", "p", "Z", "z", "Y", "y", "D", "'", "x", "O", "o",
                       "L", "R", "+", "-", ".", ",", "*", "i" } }
PositionSecond == { ord[c] : c \in { "x", "O", "*" } }

\* The argument lists an opcode takes when well formed: positions from P,
\* single characters from Literals.
ArgLists(k, P) ==
    LET one(n) == IF (n = 1 /\ k \in PositionFirst) \/ (n = 2 /\ k \in PositionSecond)
                  THEN { PyInt(q) : q \in P }
                  ELSE { PyStr(<< c >>) : c \in Literals }
    IN  IF num_args_dict[k] = 0 THEN { << >> }
        ELSE IF num_args_dict[k] = 1 THEN { << a >> : a \in one(1) }
        ELSE { << a, b >> : a \in one(1), b \in one(2) }

\* Every well-formed action with positions from P.
Actions(P) ==
    UNION { { Action(k, a) : a \in ArgLists(k, P) } : k \in DOMAIN num_args_dict }

\* A sample of well-formed actions, one or two of every argument shape.
SampleActions ==
    { Action(ord[":"], << >>),
      Action(ord["l"], << >>),
      Action(ord["$"], << PyStr(<< ord["1"] >>) >>),
      Action(ord["^"], << PyStr(<< ord[" "] >>) >>),
      Action(ord["D"], << PyInt(1) >>),
      Action(ord["T"], << PyInt(10) >>),
      Action(ord["s"], << PyStr(<< ord["a"] >>), PyStr(<< ord["D"] >>) >>),
      Action(ord["i"], << PyInt(9), PyStr(<< ord[" "] >>) >>),
      Action(ord["x"], << PyInt(0), PyInt(35) >>),
      Action(ord["*"], << PyInt(2), PyInt(1) >>) }

\* The Rules formatted and parsed: every single well-formed action with
\* positions over the whole digit alphabet, and every sequence of sample
\* actions up to MaxActions.
WellFormedRules ==
    { << a >> : a \in Actions(0..35) } \cup SeqsUpTo(SampleActions, MaxActions)

\* The characters of the passwords: two letters of different case and the
\* space that opcode E splits on.
PasswordChars == { ord[c] : c \in { "a", "B", " " } }
Passwords == SeqsUpTo(PasswordChars, MaxLen)

\* The positions given to the transforms: every index of the longest
\* password and two positions past its end.
Positions == 0..(MaxLen + 1)

\* A sample of actions for the Rules of several actions.  Some of them fail
\* on a short subject: k below two characters, } and T on the empty one.
FoldActions ==
    { Action(ord["]"], << >>),
      Action(ord["}"], << >>),
      Action(ord["k"], << >>),
      Action(ord["c"], << >>),
      Action(ord["u"], << >>),
      Action(ord["$"], << PyStr(<< ord["a"] >>) >>),
      Action(ord["D"], << PyInt(1) >>),
      Action(ord["T"], << PyInt(0) >>) }

\* The Rules applied: every single well-formed action with the positions of
\* Positions, and every sequence of FoldActions up to MaxActions.
AppliedRules ==
    { << a >> : a \in Actions(Positions) } \cup SeqsUpTo(FoldActions, MaxActions)

\* The Rules of the lists given to apply_rules: the empty Rule, Rules that
\* succeed, Rules that fail on some passwords, a Rule with an opcode that is
\* no key of the table, and a Rule whose action lacks its argument.
BatchRules ==
    { << >>,
      << Action(ord["u"], << >>) >>,
      << Action(ord["c"], << >>), Action(ord["$"], << PyStr(<< ord["a"] >>) >>) >>,
      << Action(ord["]"], << >>), Action(ord["}"], << >>) >>,
      << Action(ord["k"], << >>) >>,
      << Action(ord["!"], << >>) >>,
      << Action(ord["$"], << >>) >> }
RuleLists == SeqsUpTo(BatchRules, MaxRules)

\* ------------------------------------------------------------------------
\* State

VARIABLES
    pc,             \* where control is: "idle", inside a function, or how the
                    \* outermost call ended ("returned", "raised")
    exc,            \* the exception a call raised to its caller, or "none"
    actions,        \* format_rule: its parameter
    origin,         \* how the text given to parse_rule was made
    unparsed_rule,  \* parse_rule: its parameter
    rule,           \* parse_rule: the text left; apply_rule: its parameter
    result,         \* parse_rule: the Actions read; apply_rule: the subject
    step,           \* apply_rule: the index in rule of the next Action
    caller,         \* apply_rule: who called it, "user" or "apply_rules"
    password,       \* apply_rule and apply_rules: their parameter
    rules,          \* apply_rules: its parameter
    next_rule,      \* apply_rules: the index in rules of the next Rule
    output          \* apply_rules: the set of results

vars ==
    << pc, exc, actions, origin, unparsed_rule, rule, result, step, caller,
       password, rules, next_rule, output >>

parse_vars == << actions, origin, unparsed_rule >>
apply_vars == << step, caller, password, rules, next_rule, output >>

Init ==
    /\ pc = "idle"
    /\ exc = "none"
    /\ actions = << >>
    /\ origin = "none"
    /\ unparsed_rule = << >>
    /\ rule = << >>
    /\ result = << >>
    /\ step = 1
    /\ caller = "none"
    /\ password = << >>
    /\ rules = << >>
    /\ next_rule = 1
    /\ output = {}

\* ------------------------------------------------------------------------
\* parse_rule(unparsed_rule), and format_rule(actions) before it

\* The rule text of a sequence of well-formed actions, as hashcat writes it:
\* the opcode, every position as its digit of the alphabet and every literal
\* as itself, and a single space between the actions.
Digit(n) == CHOOSE c \in DOMAIN _i : _i[c] = n
ActionText(a) ==
    << a[1] >> \o [k \in 1..Len(a[2]) |->
                      IF a[2][k].t = "int" THEN Digit(a[2][k].v) ELSE a[2][k].v[1]]
RuleText(r) == JoinSpace([k \in 1..Len(r) |-> ActionText(r[k])])

\* parse_rule is entered: rule = unparsed_rule, result = [].
EnterParse(text) ==
    /\ unparsed_rule' = text
    /\ rule' = text
    /\ result' = << >>
    /\ pc' = "parse_rule"

\* A caller parses an arbitrary text.
CallParseRaw ==
    /\ pc = "idle"
    /\ \E text \in RawTexts : EnterParse(text)
    /\ origin' = "raw"
    /\ UNCHANGED << exc, actions, apply_vars >>

\* A caller parses the rule text of a sequence of well-formed actions.
CallParseWellFormed ==
    /\ pc = "idle"
    /\ \E r \in WellFormedRules :
          /\ actions' = r
          /\ EnterParse(RuleText(r))
    /\ origin' = "well-formed"
    /\ UNCHANGED << exc, apply_vars >>

\* format_rule(actions): the text it returns is kept in unparsed_rule.
FormatRule ==
    /\ pc = "idle"
    /\ \E r \in WellFormedRules :
          /\ actions' = r
          /\ unparsed_rule' = format_rule(r)
    /\ pc' = "formatted"
    /\ origin' = "format_rule"
    /\ UNCHANGED << exc, rule, result, apply_vars >>

\* parse_rule(format_rule(actions))
CallParseFormatted ==
    /\ pc = "formatted"
    /\ EnterParse(unparsed_rule)
    /\ UNCHANGED << exc, actions, origin, apply_vars >>

\* One iteration of the while loop that reads an Action.
ParseStep ==
    /\ pc = "parse_rule"
    /\ rule # << >>
    /\ ParseIteration(rule).ok
    /\ rule' = ParseIteration(rule).val.rule
    /\ result' = Append(result, ParseIteration(rule).val.action)
    /\ UNCHANGED << pc, exc, parse_vars, apply_vars >>

\* One iteration of the while loop that raises: the except clause prints
\* and raises the exception again.
ParseRaise ==
    /\ pc = "parse_rule"
    /\ rule # << >>
    /\ ~ParseIteration(rule).ok
    /\ pc' = "raised"
    /\ exc' = ParseIteration(rule).exc
    /\ UNCHANGED << rule, result, parse_vars, apply_vars >>

\* The while loop ends: return result.
ParseReturn ==
    /\ pc = "parse_rule"
    /\ rule = << >>
    /\ pc' = "returned"
    /\ UNCHANGED << exc, rule, result, parse_vars, apply_vars >>

NextParse ==
    \/ CallParseRaw
    \/ CallParseWellFormed
    \/ FormatRule
    \/ CallParseFormatted
    \/ ParseStep
    \/ ParseRaise
    \/ ParseReturn

SpecParse == Init /\ [][NextParse]_vars

\* ------------------------------------------------------------------------
\* apply_rule(password, rule) and apply_rules(password, rules)

\* ActionAt as it would be if the for loop ran over the Rule backwards.
ActionAtReversed(r, n) == r[Len(r) + 1 - n]

\* The Action the for loop of apply_rule takes at its n-th iteration.
ActionAt(r, n) == r[n]

\* SubjectOf as it would be if apply_rules chained the Rules.
SubjectOfChained(pw, last) == last

\* The subject the for loop of apply_rules gives apply_rule for a Rule, pw
\* being the password and last the result of the Rule before it.
SubjectOf(pw, last) == pw

\* hashcat_rule[rule_type](result, *args) for the next Action of rule.
Transformed == CallTransform(ActionAt(rule, step)[1], result, ActionAt(rule, step)[2])

\* apply_rule is entered: result = password.
EnterApply(subject, r) ==
    /\ rule' = r
    /\ result' = subject
    /\ step' = 1
    /\ pc' = "apply_rule"

\* A caller applies one Rule to a password.
CallApplyRule ==
    /\ pc = "idle"
    /\ \E pw \in Passwords, r \in AppliedRules :
          /\ password' = pw
          /\ EnterApply(pw, r)
    /\ caller' = "user"
    /\ UNCHANGED << exc, parse_vars, rules, next_rule, output >>

\* One iteration of the for loop of apply_rule: the transform's result
\* replaces the subject.
ApplyStep ==
    /\ pc = "apply_rule"
    /\ step <= Len(rule)
    /\ Transformed.ok
    /\ result' = Transformed.val
    /\ step' = step + 1
    /\ UNCHANGED << pc, exc, parse_vars, rule, caller, password, rules,
                    next_rule, output >>

\* The transform raises and apply_rule, which has no handler, raises to the
\* user who called it.
ApplyRaise ==
    /\ pc = "apply_rule"
    /\ caller = "user"
    /\ step <= Len(rule)
    /\ ~Transformed.ok
    /\ pc' = "raised"
    /\ exc' = Transformed.exc
    /\ UNCHANGED << parse_vars, rule, result, step, caller, password, rules,
                    next_rule, output >>

\* The for loop of apply_rule ends: return result to the user.
ApplyReturn ==
    /\ pc = "apply_rule"
    /\ caller = "user"
    /\ step > Len(rule)
    /\ pc' = "returned"
    /\ UNCHANGED << exc, parse_vars, rule, result, step, caller, password,
                    rules, next_rule, output >>

\* A caller applies a list of Rules to a password: output = set().
CallApplyRules ==
    /\ pc = "idle"
    /\ \E pw \in Passwords, rs \in RuleLists :
          /\ password' = pw
          /\ rules' = rs
    /\ output' = {}
    /\ next_rule' = 1
    /\ caller' = "apply_rules"
    /\ pc' = "apply_rules"
    /\ UNCHANGED << exc, parse_vars, rule, result, step >>

\* for r in rules: apply_rule(password, r) is called.
BatchNext ==
    /\ pc = "apply_rules"
    /\ next_rule <= Len(rules)
    /\ EnterApply(SubjectOf(password, result), rules[next_rule])
    /\ next_rule' = next_rule + 1
    /\ UNCHANGED << exc, parse_vars, caller, password, rules, output >>

\* apply_rule returns to apply_rules: output.add(result).
BatchAdd ==
    /\ pc = "apply_rule"
    /\ caller = "apply_rules"
    /\ step > Len(rule)
    /\ output' = output \cup { result }
    /\ pc' = "apply_rules"
    /\ UNCHANGED << exc, parse_vars, rule, result, step, caller, password,
                    rules, next_rule >>

\* apply_rule raises to apply_rules: except Exception: pass.
BatchExcept ==
    /\ pc = "apply_rule"
    /\ caller = "apply_rules"
    /\ step <= Len(rule)
    /\ ~Transformed.ok
    /\ pc' = "apply_rules"
    /\ UNCHANGED << exc, parse_vars, rule, result, step, caller, password,
                    rules, next_rule, output >>

\* The for loop of apply_rules ends: return output.
BatchReturn ==
    /\ pc = "apply_rules"
    /\ next_rule > Len(rules)
    /\ pc' = "returned"
    /\ UNCHANGED << exc, parse_vars, rule, result, step, caller, password,
                    rules, next_rule, output >>

NextApply ==
    \/ CallApplyRule
    \/ ApplyStep
    \/ ApplyRaise
    \/ ApplyReturn
    \/ CallApplyRules
    \/ BatchNext
    \/ BatchAdd
    \/ BatchExcept
    \/ BatchReturn

SpecApply == Init /\ [][NextApply]_vars

\* ------------------------------------------------------------------------
\* Properties of parse_rule and format_rule (SpecParse)

ParseEnded == pc \in { "returned", "raised" }

\* C2: parse_rule never returns a Rule with an Action that holds fewer
\* arguments than the arity of its opcode: a text whose last opcode is
\* followed by fewer characters than its arity makes it fail.
C2_NoTruncatedAction ==
    pc = "returned" =>
        \A k \in 1..Len(result) :
            Len(result[k][2]) = num_args_dict[result[k][1]]

\* C3: round trip: parse_rule(format_rule(r)) returns r, for every Rule r
\* of well-formed actions with positions in 0..35 and single-character
\* literals.
C3_RoundTrip ==
    (origin = "format_rule" /\ ParseEnded) =>
        (pc = "returned" /\ result = actions)

\* C8: the rule text of a sequence of well-formed actions parses to exactly
\* those actions in order, positions decoded and literals kept; while the
\* loop runs, the Actions read are a prefix of them and the text left is
\* the text of the others; the empty text parses to the empty Rule.
C8_ParsesWellFormed ==
    origin = "well-formed" =>
        /\ pc # "raised"
        /\ pc = "parse_rule" =>
              /\ Len(result) <= Len(actions)
              /\ result = SubSeq(actions, 1, Len(result))
              /\ rule = RuleText(SubSeq(actions, Len(result) + 1, Len(actions)))
        /\ pc = "returned" => result = actions

\* C8's case: a text of two actions, with positions above 9 and a literal
\* space, has been parsed.
C8_Witness ==
    /\ origin = "well-formed"
    /\ pc = "returned"
    /\ actions = << Action(ord["x"], << PyInt(0), PyInt(35) >>),
                    Action(ord["i"], << PyInt(9), PyStr(<< ord[" "] >>) >>) >>
    /\ unparsed_rule = << ord["x"], ord["0"], ord["Z"], ord[" "],
                          ord["i"], ord["9"], ord[" "] >>

\* Whether a character that is no key of the table stands at an opcode
\* position of text, p being an opcode position: the next one follows the
\* opcode, its arguments and one separator.
RECURSIVE UnknownOpcodeFrom(_, _)
UnknownOpcodeFrom(text, p) ==
    IF p > Len(text) THEN FALSE
    ELSE IF text[p] \notin DOMAIN num_args_dict THEN TRUE
    ELSE UnknownOpcodeFrom(text, p + num_args_dict[text[p]] + 2)

\* C9: a text with a character at an opcode position that is no key of the
\* table makes parse_rule raise to its caller, whatever precedes it.
C9_UnknownOpcodeRaises ==
    (ParseEnded /\ UnknownOpcodeFrom(unparsed_rule, 1)) =>
        (pc = "raised" /\ exc # "none")

\* C9's case: the unknown opcode came after an Action was read.
C9_Witness ==
    /\ pc = "raised"
    /\ exc = "KeyError"
    /\ Len(result) >= 1
    /\ UnknownOpcodeFrom(unparsed_rule, 1)

\* ------------------------------------------------------------------------
\* Properties of apply_rule and apply_rules (SpecApply)

\* The outcome of the first n Actions of Rule r folded over s from the left:
\* each transform takes the result of the one before, and the first one that
\* raises ends the fold.
RECURSIVE FoldLeft(_, _, _)
FoldLeft(s, r, n) ==
    IF n = 0 THEN Ok(s)
    ELSE LET before == FoldLeft(s, r, n - 1)
         IN  IF before.ok THEN CallTransform(r[n][1], before.val, r[n][2])
             ELSE before

ApplyEnded == caller = "user" /\ pc \in { "returned", "raised" }

\* The single Action of the Rule applied, its opcode and its positions.
OneAction == Len(rule) = 1
Opcode == rule[1][1]
ArgN == rule[1][2][1].v
ArgM == rule[1][2][2].v

\* C1: apply_rules never raises and returns the set of the results of the
\* Rules that apply to the password itself without raising.
C1_ApplyRulesCollects ==
    caller = "apply_rules" =>
        /\ pc # "raised"
        /\ pc \in { "apply_rules", "returned" } =>
              output = { FoldLeft(password, rules[k], Len(rules[k])).val :
                           k \in { j \in 1..(next_rule - 1) :
                                     FoldLeft(password, rules[j], Len(rules[j])).ok } }
        /\ pc = "returned" => next_rule = Len(rules) + 1

\* C1's case: the first Rule failed, the second one was still applied, to
\* the password, and its result is the output.
C1_Witness ==
    /\ caller = "apply_rules"
    /\ pc = "returned"
    /\ Len(rules) = 2
    /\ ~FoldLeft(password, rules[1], Len(rules[1])).ok
    /\ FoldLeft(password, rules[2], Len(rules[2])).ok
    /\ Len(rules[2]) = 2
    /\ output = { FoldLeft(password, rules[2], 2).val }
    /\ output # { password }

\* C4: D, ', O and x with a position outside the subject raise.
C4_OutOfRangeRaises ==
    (/\ ApplyEnded
     /\ OneAction
     /\ \/ Opcode \in { ord["D"], ord["'"] } /\ ArgN >= Len(password)
        \/ /\ Opcode \in { ord["O"], ord["x"] }
           /\ (ArgN >= Len(password) \/ ArgN + ArgM > Len(password)))
    => pc = "raised"

\* C5: . and , raise when the neighbour of N (N+1 for ., N-1 for ,) is no
\* index of the subject, and replace the character at N with it otherwise.
C5_NeighbourReplace ==
    (ApplyEnded /\ OneAction /\ Opcode \in { ord["."], ord[","] }) =>
        LET nb == IF Opcode = ord["."] THEN ArgN + 1 ELSE ArgN - 1
        IN  IF nb < 0 \/ nb >= Len(password) THEN pc = "raised"
            ELSE ArgN < Len(password) =>
                    /\ pc = "returned"
                    /\ result = [password EXCEPT ![ArgN + 1] = password[nb + 1]]

\* s with the characters at the indexes i and j exchanged.
Exchange(s, i, j) ==
    [k \in 1..Len(s) |->
        IF k = i + 1 THEN s[j + 1] ELSE IF k = j + 1 THEN s[i + 1] ELSE s[k]]

\* C6: * with two different positions inside the subject exchanges the two
\* characters and nothing else, and gives the same with the positions in
\* the other order.
C6_SwapSymmetry ==
    (/\ ApplyEnded /\ OneAction /\ Opcode = ord["*"]
     /\ ArgN # ArgM /\ ArgN < Len(password) /\ ArgM < Len(password))
    => /\ pc = "returned"
       /\ result = Exchange(password, ArgN, ArgM)
       /\ star_func(password, ArgM, ArgN) = Ok(result)

\* C6's case: the higher position came first and the two characters differ.
C6_Witness ==
    /\ ApplyEnded /\ OneAction /\ Opcode = ord["*"]
    /\ pc = "returned"
    /\ ArgN = 2 /\ ArgM = 0
    /\ Len(password) = 3
    /\ password[1] # password[3]
    /\ result # password

\* C7: apply_rule folds the Actions over the password from the left: the
\* subject after n Actions is the fold of the first n, it returns the fold
\* of them all, and it raises what the first failing transform raises.
C7_ApplyRuleFolds ==
    caller = "user" =>
        /\ pc = "apply_rule" => FoldLeft(password, rule, step - 1) = Ok(result)
        /\ pc = "returned" => FoldLeft(password, rule, Len(rule)) = Ok(result)
        /\ pc = "raised" =>
              /\ ~FoldLeft(password, rule, Len(rule)).ok
              /\ FoldLeft(password, rule, Len(rule)).exc = exc

\* C7's case: the second Action of a Rule raised after the first one had
\* changed the subject.
C7_Witness ==
    /\ caller = "user"
    /\ pc = "raised"
    /\ step = 2
    /\ result # password
    /\ exc = "IndexError"

\* C10: * with twice the same position inside the subject returns the
\* subject unchanged.
C10_SwapEqualIsNoOp ==
    (/\ ApplyEnded /\ OneAction /\ Opcode = ord["*"]
     /\ ArgN = ArgM /\ ArgN < Len(password))
    => (pc = "returned" /\ result = password)

=============================================================================
